---- MODULE Spec2Model ----
(***************************************************************************)
(* State-machine model of aisched: the flow network (Node, Graph), its     *)
(* stack-based augmenting-path solver (depth_first_search, edmonds_karp)   *)
(* and the orchestrator MaxFlowMatch.find_and_print with the scorer's      *)
(* stream handling (LsiSearch.read_csv / find_in_csv).                     *)
(*                                                                         *)
(* A Node's three dicts edges/flows/residuals are kept as three functions  *)
(* over the pairs <<node, neighbour>>; Python 2 iterates a dict in hash    *)
(* order, which is fixed while no key is inserted: keyorder holds that     *)
(* order for every node during a solve and the readout that follows it.    *)
(*                                                                         *)
(* Specifications: Spec (a Graph built, then solved), SpecRun              *)
(* (find_and_print on its two streams), SpecMatch (find_and_print with the *)
(* candidate lists given), SpecEdit (add_* calls before and after a        *)
(* solve), SpecScore (find_in_csv with the scores of the rows left open)   *)
(* and SpecKLimit (get_k_limit on a list of singular values).              *)
(***************************************************************************)
EXTENDS Integers, Sequences, FiniteSets, TLC

ID_SOURCE == "__IDSRC__"
ID_SINK == "__IDSNK__"
ID_ANONYMOUS == "__IDANON__"

\* sys.maxint of a 32-bit build
maxint == 2147483647

\* ---------------------------------------------------------------- bounds
\* ids the Graph-level operations draw their node arguments from
NodeIds == {"a", "b"}
\* largest capacity an edge of the Graph-level specification may reach
MaxCap == 2
\* largest number of edges of the Graph-level specification
MaxEdges == 4
\* longest open-shift CSV of a run of find_and_print
MaxShifts == 2
\* largest number of data lines of the historical CSV
MaxHist == 2
\* largest number of add_to_graph calls of the orchestrator-level specification
MaxMatchShifts == 3
\* longest candidate list handed to add_to_graph
MaxCandidates == 2
\* largest capacity an edge of the editing specification may reach
MaxEditCap == 2
\* largest number of edges of the editing specification
MaxEditEdges == 3
\* largest number of data lines of the historical CSV of the scorer
MaxScoreHist == 3
\* largest result_count a scorer query asks for
MaxResultCount == 2

VARIABLES
    nodes,             \* Graph.nodes: the set of node ids ({} while schedule_graph is None)
    edges,             \* Node.edges:     <<u, v>> -> capacity
    flows,             \* Node.flows:     <<u, v>> -> flow
    residuals,         \* Node.residuals: <<u, v>> -> residual
    keyorder,          \* node -> its dict keys in iteration order
    pc,                \* position of the running call
    search_path,       \* edmonds_karp: search_path
    search_path_flow,  \* edmonds_karp: search_path_flow
    path_index,        \* edmonds_karp: position in search_path (1-based)
    augmentations,     \* number of augmenting steps started by edmonds_karp
    error,             \* the exception that ended the run, or "none"
    open_shift_stream, \* find_and_print: the rows of the open-shift CSV
    shift_list,        \* find_and_print: shift_list
    shift_list_keys,   \* find_and_print: shift_list_keys
    hist_data_stream,  \* find_and_print: the lines of the historical CSV
    hist_pos,          \* number of lines of hist_data_stream already consumed
    csv_list,          \* read_csv: csv_list of the latest call
    output,            \* the lines the readout has printed
    call,              \* the Graph call a client editing the graph made last
    lsi,               \* perform_search: its arguments and locals
    eigenvalues,       \* get_k_limit: its arguments, its iterator and locals
    total_capacity,    \* edmonds_karp: total_capacity
    returned           \* what the latest max_flow call returned, <<>> before it has

graphVars == <<nodes, edges, flows, residuals>>
solverVars == <<keyorder, search_path, search_path_flow, path_index, augmentations>>
runVars == <<open_shift_stream, shift_list, shift_list_keys, hist_data_stream,
             hist_pos, csv_list, output>>
vars == <<nodes, edges, flows, residuals, keyorder, pc, search_path,
          search_path_flow, path_index, augmentations, error,
          open_shift_stream, shift_list, shift_list_keys, hist_data_stream,
          hist_pos, csv_list, output, call, lsi,
          eigenvalues, total_capacity, returned>>

\* ------------------------------------------------------------- helpers
Min(x, y) == IF x <= y THEN x ELSE y

Front(s) == SubSeq(s, 1, Len(s) - 1)

Last(s) == s[Len(s)]

RECURSIVE Reverse(_)
Reverse(s) == IF s = <<>> THEN <<>> ELSE Reverse(Tail(s)) \o <<Head(s)>>

RECURSIVE SumOver(_, _)
\* sum of f over the finite set S of its arguments
SumOver(f, S) ==
    IF S = {} THEN 0
    ELSE LET x == CHOOSE y \in S : TRUE IN f[x] + SumOver(f, S \ {x})

\* all orderings of a finite set
RECURSIVE Perms(_)
Perms(S) ==
    IF S = {} THEN {<<>>}
    ELSE UNION {{<<x>> \o p : p \in Perms(S \ {x})} : x \in S}

\* the keys of node u's dicts
Keys(e, u) == {p[2] : p \in {q \in DOMAIN e : q[1] = u}}

\* every iteration order the dicts of the nodes ns may have
RECURSIVE KeyOrders(_, _)
KeyOrders(e, ns) ==
    IF ns = {} THEN {<<>>}
    ELSE LET n == CHOOSE m \in ns : TRUE IN
         {(n :> p) @@ f : p \in Perms(Keys(e, n)), f \in KeyOrders(e, ns \ {n})}

\* ------------------------------------------------------- Node.connect_to
\* the graph held by the variables, as one value
Graph == [nodes |-> nodes, edges |-> edges, flows |-> flows, residuals |-> residuals]

\* the variables take the graph g
GraphBecomes(g) ==
    /\ nodes' = g.nodes
    /\ edges' = g.edges
    /\ flows' = g.flows
    /\ residuals' = g.residuals

\* capacity of the edge after connect_to (lines 75-83)
connect_to_weight(e, key, edge_weight, add_weight) ==
    IF ~add_weight
    THEN edge_weight
    ELSE (IF key \in DOMAIN e THEN e[key] ELSE 0) + edge_weight

\* flow of the edge after connect_to (line 84)
connect_to_flow(f, key) == 0

\* d with d[key] = value, as a dict assignment
Assign(d, key, value) == [k \in (DOMAIN d) \cup {key} |-> IF k = key THEN value ELSE d[k]]

connect_to(g, self, node_id, edge_weight, add_weight) ==
    IF node_id = ID_ANONYMOUS
    THEN g
    ELSE LET key == <<self, node_id>>
             w == connect_to_weight(g.edges, key, edge_weight, add_weight)
         IN [nodes |-> g.nodes,
             edges |-> Assign(g.edges, key, w),
             flows |-> Assign(g.flows, key, connect_to_flow(g.flows, key)),
             residuals |-> Assign(g.residuals, key, w)]

\* --------------------------------------------------------------- Graph
\* Graph.__init__
NewGraph == [nodes |-> {ID_SOURCE, ID_SINK}, edges |-> <<>>, flows |-> <<>>,
             residuals |-> <<>>]

\* d without the keys of node u
Without(d, u) == [k \in {q \in DOMAIN d : q[1] /= u} |-> d[k]]

\* a fresh Node stored whether or not the id is a node already
add_node_replacing(g, node_id) ==
    [nodes |-> g.nodes \cup {node_id}, edges |-> Without(g.edges, node_id),
     flows |-> Without(g.flows, node_id),
     residuals |-> Without(g.residuals, node_id)]

add_node(g, node_id) ==
    IF node_id \notin g.nodes
    THEN [g EXCEPT !.nodes = g.nodes \cup {node_id}]
    ELSE g

\* a missing endpoint created instead of the call being skipped
add_edge_creating(g, source_node, sink_node, capacity, add_capacity) ==
    connect_to([g EXCEPT !.nodes = g.nodes \cup {source_node, sink_node}],
               source_node, sink_node, capacity, add_capacity)

add_edge(g, source_node, sink_node, capacity, add_capacity) ==
    IF source_node \notin g.nodes \/ sink_node \notin g.nodes
    THEN g
    ELSE connect_to(g, source_node, sink_node, capacity, add_capacity)

\* the leading edge set instead of accumulated
add_leading_edge_set(g, sink_node, capacity) ==
    add_edge(g, ID_SOURCE, sink_node, capacity, FALSE)

add_leading_edge(g, sink_node, capacity) ==
    add_edge(g, ID_SOURCE, sink_node, capacity, TRUE)

\* the trailing edge accumulated instead of set
add_trailing_edge_accumulating(g, source_node, capacity) ==
    add_edge(g, source_node, ID_SINK, capacity, TRUE)

add_trailing_edge(g, source_node, capacity) ==
    add_edge(g, source_node, ID_SINK, capacity, FALSE)

\* ------------------------------------------- Graph.depth_first_search
\* line 186: the edge leads to the target
IsTarget(edge, target_node) == edge = target_node

\* line 197: the edge has capacity
HasCapacity(res, current_node, edge) == res[<<current_node, edge>>] > 0

RECURSIVE ScanEdges(_, _, _, _, _, _, _, _)
\* the inner for loop over residuals (lines 185-201), from key j on
ScanEdges(res, keys, j, current_node, target_node, node_list, capacity_list, parent_list) ==
    IF j > Len(keys)
    THEN [target_found |-> FALSE, node_list |-> node_list,
          capacity_list |-> capacity_list, parent_list |-> parent_list]
    ELSE LET edge == keys[j] IN
         IF IsTarget(edge, target_node)
         THEN [target_found |-> TRUE, node_list |-> <<>>,
               capacity_list |-> capacity_list,
               parent_list |-> parent_list \o <<current_node, target_node>>]
         ELSE IF HasCapacity(res, current_node, edge)
              THEN ScanEdges(res, keys, j + 1, current_node, target_node,
                             Append(node_list, edge),
                             Append(capacity_list, res[<<current_node, edge>>]),
                             Append(parent_list, current_node))
              ELSE ScanEdges(res, keys, j + 1, current_node, target_node,
                             node_list, capacity_list, parent_list)

\* line 177: the running bottleneck after a pop
PoppedCapacity(capacity, current_capacity) == Min(capacity, current_capacity)

RECURSIVE SearchLoop(_, _, _, _, _, _, _, _, _)
\* the while loop (lines 173-201)
SearchLoop(res, ko, target_node, node_list, capacity_list, parent_list, visited, capacity, target_found) ==
    IF Len(node_list) = 0
    THEN [target_found |-> target_found, parent_list |-> parent_list,
          capacity |-> capacity]
    ELSE LET current_node == Last(node_list)
             current_capacity == Last(capacity_list)
             cap == PoppedCapacity(capacity, current_capacity)
         IN IF current_node \in visited
            THEN SearchLoop(res, ko, target_node, Front(node_list),
                            Front(capacity_list), parent_list, visited, cap,
                            target_found)
            ELSE LET r == ScanEdges(res, ko[current_node], 1, current_node,
                                    target_node, Front(node_list),
                                    Front(capacity_list), parent_list)
                 IN SearchLoop(res, ko, target_node, r.node_list,
                               r.capacity_list, r.parent_list,
                               visited \cup {current_node}, cap, r.target_found)

RECURSIVE PathBack(_, _, _)
\* lines 205-209: parent_list walked from its end, consecutive repeats
\* dropped; node_last is {} for the initial 0, else {the previous entry}
PathBack(parent_list, k, node_last) ==
    IF k = 0 THEN <<>>
    ELSE (IF parent_list[k] \notin node_last THEN <<parent_list[k]>> ELSE <<>>)
         \o PathBack(parent_list, k - 1, {parent_list[k]})

depth_first_search(res, ko, source_node, target_node) ==
    LET r == SearchLoop(res, ko, target_node, <<source_node>>, <<maxint>>,
                        <<>>, {}, maxint, FALSE)
    IN IF r.target_found
       THEN [capacity |-> r.capacity,
             search_path |-> Reverse(PathBack(r.parent_list, Len(r.parent_list), {}))]
       ELSE [capacity |-> 0, search_path |-> <<>>]

\* ------------------------------------------------- Graph.edmonds_karp
\* max_flow has not returned
NoReturn == <<>>

\* line 230: the loop is left
SearchEnds(r) ==
    r.capacity <= 0 \/ Len(r.search_path) = 0 \/ r.capacity = maxint

\* line 224: flow_graph = None, never assigned again
flow_graph == "None"

\* the bottleneck of every augmentation summed up in total_capacity
TotalCapacity_accumulated(total, pushed) == total + pushed

\* lines 233-248: no line of the loop body assigns total_capacity
TotalCapacity(total, pushed) == total

\* lines 227-231 and, when the loop is left, line 250: one search
Search ==
    /\ pc = "searching"
    /\ LET r == depth_first_search(residuals, keyorder, ID_SOURCE, ID_SINK) IN
       /\ search_path_flow' = r.capacity
       /\ search_path' = r.search_path
       /\ IF SearchEnds(r)
          THEN /\ pc' = "converged"
               /\ returned' = <<total_capacity, flow_graph>>
               /\ UNCHANGED <<path_index, augmentations, total_capacity>>
          ELSE /\ pc' = "augmenting"
               /\ path_index' = 1
               /\ augmentations' = augmentations + 1
               /\ total_capacity' = TotalCapacity(total_capacity, r.capacity)
               /\ UNCHANGED returned
    /\ UNCHANGED <<graphVars, keyorder, error, runVars, call, lsi, eigenvalues>>

\* the for loop left one node early: the last edge of the path is not updated
LastIndex_early(path) == Len(path) - 1

\* line 234: the last node of the path ends the for loop
LastIndex(path) == Len(path)

\* the bottleneck assigned to the flow instead of added to it
AugmentedFlow_assigned(f, key, amount) == amount

\* line 239: the flow of a path edge after the update
AugmentedFlow(f, key, amount) == f[key] + amount

\* line 240: the residual of a path edge after the update
AugmentedResidual(e, f, key) == e[key] - f[key]

\* lines 236-240: the update of one edge of the path
AugmentEdge ==
    /\ pc = "augmenting"
    /\ path_index /= LastIndex(search_path)
    /\ LET key == <<search_path[path_index], search_path[path_index + 1]>> IN
       /\ key \in DOMAIN flows
       /\ flows' = [flows EXCEPT ![key] = AugmentedFlow(flows, key, search_path_flow)]
       /\ residuals' = [residuals EXCEPT ![key] = AugmentedResidual(edges, flows', key)]
    /\ path_index' = path_index + 1
    /\ UNCHANGED <<nodes, edges, keyorder, pc, search_path, search_path_flow,
                   augmentations, error, runVars, call, lsi,
                   eigenvalues, total_capacity, returned>>

\* line 239 on a pair of the path that is no key of flows: KeyError
AugmentRaise ==
    /\ pc = "augmenting"
    /\ path_index /= LastIndex(search_path)
    /\ <<search_path[path_index], search_path[path_index + 1]>> \notin DOMAIN flows
    /\ pc' = "raised"
    /\ error' = "KeyError(next_node)"
    /\ UNCHANGED <<graphVars, solverVars, runVars, call, lsi,
                   eigenvalues, total_capacity, returned>>

\* lines 234-235: the for loop ends, back to the while loop
AugmentDone ==
    /\ pc = "augmenting"
    /\ path_index = LastIndex(search_path)
    /\ pc' = "searching"
    /\ UNCHANGED <<graphVars, solverVars, error, runVars, call, lsi,
                   eigenvalues, total_capacity, returned>>

\* Graph.max_flow(ID_SOURCE, ID_SINK) is entered
MaxFlowFrom(at) ==
    /\ pc = at
    /\ pc' = "searching"
    /\ keyorder' \in KeyOrders(edges, nodes)
    /\ total_capacity' = 0
    /\ returned' = NoReturn
    /\ UNCHANGED <<graphVars, search_path, search_path_flow, path_index,
                   augmentations, error, runVars, call, lsi, eigenvalues>>

\* ------------------------------------------------------ LsiSearch
\* LsiSearch.WORK_MAP
WORK_MAP == [t \in {"CNA", "LPN", "ZZZ"} |-> CASE t = "CNA" -> 0 [] t = "LPN" -> 1 [] t = "ZZZ" -> 2]

\* LsiSearch.BOOL_MAP
BOOL_MAP == [t \in {"False", "True"} |-> IF t = "True" THEN 1 ELSE 0]

\* int() on the cells the inputs are drawn from; other cells raise ValueError
IntCells == [t \in {"0", "1", "2"} |-> CASE t = "0" -> 0 [] t = "1" -> 1 [] t = "2" -> 2]

\* the header line of the historical CSV
HistHeader == [work_day |-> "work_day", work_shift |-> "work_shift",
               work_type |-> "work_type", worked |-> "worked",
               employee_id |-> "employee_id"]

\* the key of a record built without its employee id
csv_key_of_fields(work_day, work_shift, work_type, worked, employee_id) ==
    ToString(work_day) \o "-" \o ToString(work_shift) \o "-" \o ToString(work_type)
        \o "-" \o ToString(worked)

\* line 50: csv_key
csv_key_of(work_day, work_shift, work_type, worked, employee_id) ==
    ToString(work_day) \o "-" \o ToString(work_shift) \o "-" \o ToString(work_type)
        \o "-" \o ToString(worked) \o "-" \o employee_id

RECURSIVE read_csv_from(_, _, _, _, _)
\* lines 41-72 from line j of csv_list on; the repetition weight
\* count * WORK_COUNT_FACTOR is kept in hundredths, as count
read_csv_from(lines, j, schedule_list, employee_ids, csv_index) ==
    IF j > Len(lines)
    THEN [schedule_list |-> schedule_list, employee_ids |-> employee_ids]
    ELSE IF j = 1
    THEN read_csv_from(lines, j + 1, schedule_list, employee_ids, csv_index)
    ELSE LET line == lines[j]
             work_day == IntCells[line.work_day]
             work_shift == IntCells[line.work_shift]
             work_type == WORK_MAP[line.work_type]
             worked == BOOL_MAP[line.worked]
             employee_id == line.employee_id
             csv_key == csv_key_of(work_day, work_shift, work_type, worked, employee_id)
         IN IF csv_key \notin DOMAIN csv_index
            THEN read_csv_from(lines, j + 1,
                     Append(schedule_list,
                            <<work_day, work_shift, work_type, worked, 1, 0, 0, 0, 0>>),
                     Append(employee_ids, employee_id),
                     Assign(csv_index, csv_key, [id |-> Len(schedule_list) + 1, count |-> 1]))
            ELSE LET item == [csv_index[csv_key] EXCEPT !.count = @ + 1] IN
                 read_csv_from(lines, j + 1,
                     [schedule_list EXCEPT ![item.id][5] = item.count],
                     employee_ids,
                     Assign(csv_index, csv_key, item))

\* lines 36-37: what csv.reader still yields from the stream
StreamRest(stream, pos) == SubSeq(stream, pos + 1, Len(stream))

\* read_csv on the lines it got
read_csv(lines) == read_csv_from(lines, 1, <<>>, <<>>, <<>>)

\* center_matrix, line 84: source_matrix[0] of an empty matrix raises IndexError
center_matrix_raises(source_matrix) == Len(source_matrix) = 0

\* all sequences of distinct elements of S of length at most n
RECURSIVE DistinctSeqs(_, _)
DistinctSeqs(S, n) ==
    IF n = 0 \/ S = {} THEN {<<>>}
    ELSE {<<>>} \cup UNION {{<<x>> \o q : q \in DistinctSeqs(S \ {x}, n - 1)} : x \in S}

\* center_matrix, lines 96-109, gives the zero matrix: every row equals the
\* mean row. create_eigenspace then projects onto a zero eigenspace and
\* divides each of its rows by the norm 0 (lines 158-169), which numpy
\* answers with NaN and a warning, and every weight and score is NaN.
ZeroCentered(source_matrix) ==
    \A i, j \in 1..Len(source_matrix) : source_matrix[i] = source_matrix[j]

\* perform_search, lines 238-273: the rows kept, best first, cut to
\* result_count. The scores are floating-point results of the singular value
\* decomposition and are left open: any rows may be kept, in any order;
\* no row is kept when the scores are NaN (line 256 is False for NaN).
perform_search(result_count, schedule_list, employee_ids) ==
    IF ZeroCentered(schedule_list) THEN {<<>>}
    ELSE {[k \in 1..Len(q) |-> employee_ids[q[k]]] :
             q \in DistinctSeqs(1..Len(employee_ids), result_count)}

\* --------------------------------------------------- MaxFlowMatch
\* the vocabulary table WorkTypes().map of work_types.py
WORK_TYPE_MAP == [t \in {"CNA", "LPN"} |-> IF t = "CNA" THEN 0 ELSE 1]

HOURS_SHIFT == 8
HOURS_WEEK == 40

\* lines 292-299: int(cell), 0 when it raises
int_or_zero(cell) == IF cell \in DOMAIN IntCells THEN IntCells[cell] ELSE 0

\* line 300: the vocabulary lookup raises KeyError
work_type_raises(row) == row.work_type \notin DOMAIN WORK_TYPE_MAP

RECURSIVE read_shift_rows_skipping(_, _, _)
\* a row with an unknown work type skipped instead of raising
read_shift_rows_skipping(stream, j, shift_list_) ==
    IF j > Len(stream)
    THEN [raised |-> FALSE, shift_list |-> shift_list_]
    ELSE IF work_type_raises(stream[j])
    THEN read_shift_rows_skipping(stream, j + 1, shift_list_)
    ELSE read_shift_rows_skipping(stream, j + 1,
             Append(shift_list_,
                    [work_day |-> int_or_zero(stream[j].work_day),
                     work_shift |-> int_or_zero(stream[j].work_shift),
                     work_type |-> WORK_TYPE_MAP[stream[j].work_type]]))

RECURSIVE read_shift_rows(_, _, _)
\* lines 291-306 from row j on
read_shift_rows(stream, j, shift_list_) ==
    IF j > Len(stream)
    THEN [raised |-> FALSE, shift_list |-> shift_list_]
    ELSE IF work_type_raises(stream[j])
    THEN [raised |-> TRUE, shift_list |-> shift_list_]
    ELSE read_shift_rows(stream, j + 1,
             Append(shift_list_,
                    [work_day |-> int_or_zero(stream[j].work_day),
                     work_shift |-> int_or_zero(stream[j].work_shift),
                     work_type |-> WORK_TYPE_MAP[stream[j].work_type]]))

read_shift_csv(stream) == read_shift_rows(stream, 1, <<>>)

\* line 345: shift_key
shift_key_of(shift) ==
    ToString(shift.work_day) \o "-" \o ToString(shift.work_shift) \o "-"
        \o ToString(shift.work_type)

RECURSIVE add_candidates(_, _, _, _)
\* lines 325-329 from candidate j on
add_candidates(g, shift_key, shift_candidates, j) ==
    IF j > Len(shift_candidates) THEN g
    ELSE LET candidate_key == shift_candidates[j]
             g1 == add_node(g, candidate_key)
             g2 == add_edge(g1, shift_key, candidate_key, HOURS_SHIFT, FALSE)
             g3 == add_trailing_edge(g2, candidate_key, HOURS_WEEK)
         IN add_candidates(g3, shift_key, shift_candidates, j + 1)

\* the intake of a shift wider than one shift
add_to_graph_wide(g, shift_key, shift_candidates) ==
    add_candidates(add_leading_edge(add_node(g, shift_key), shift_key, 2 * HOURS_SHIFT),
                   shift_key, shift_candidates, 1)

add_to_graph(g, shift_key, shift_candidates) ==
    add_candidates(add_leading_edge(add_node(g, shift_key), shift_key, HOURS_SHIFT),
                   shift_key, shift_candidates, 1)

\* the employee printed for a shift without a positive flow
UNFILLED == "--?--"

RECURSIVE FirstPositive(_, _, _, _)
\* lines 370-371: the position in keys of the first flow > 0 of the shift, 0 if none
FirstPositive(f, shift, keys, j) ==
    IF j > Len(keys) THEN 0
    ELSE IF f[<<shift, keys[j]>>] > 0 THEN j
    ELSE FirstPositive(f, shift, keys, j + 1)

\* line 374: the flow left on the edge that was printed
ReadFlow(f, key) == 0

RECURSIVE readout_from(_, _, _, _, _, _)
\* lines 367-377 from shift k on; flow is the loop variable of line 370,
\* <<>> while it is unbound, which outlives the loop of one shift
readout_from(keys_list, k, f, ko, flow, out) ==
    IF k > Len(keys_list)
    THEN [error |-> "none", flows |-> f, output |-> out]
    ELSE LET shift == keys_list[k]
             keys == ko[shift]
             hit == FirstPositive(f, shift, keys, 1)
         IN IF hit > 0
            THEN readout_from(keys_list, k + 1,
                     [f EXCEPT ![<<shift, keys[hit]>>] = ReadFlow(f, <<shift, keys[hit]>>)],
                     ko, <<keys[hit]>>,
                     Append(out, [shift |-> shift, employee |-> keys[hit],
                                  hours |-> f[<<shift, keys[hit]>>]]))
            ELSE LET last == IF Len(keys) > 0 THEN <<keys[Len(keys)]>> ELSE flow IN
                 IF last = <<>>
                 THEN [error |-> "UnboundLocalError", flows |-> f, output |-> out]
                 ELSE IF <<shift, last[1]>> \notin DOMAIN f
                 THEN [error |-> "KeyError(flow)", flows |-> f, output |-> out]
                 ELSE readout_from(keys_list, k + 1, f, ko, last,
                          Append(out, [shift |-> shift, employee |-> UNFILLED,
                                       hours |-> f[<<shift, last[1]>>]]))

\* the readout of find_and_print on the flows f
readout(keys_list, f, ko) == readout_from(keys_list, 1, f, ko, <<>>, <<>>)

\* lines 367-377
Readout ==
    /\ pc = "converged"
    /\ LET r == readout(shift_list_keys, flows, keyorder) IN
       /\ flows' = r.flows
       /\ output' = r.output
       /\ error' = r.error
       /\ pc' = IF r.error = "none" THEN "done" ELSE "raised"
    /\ UNCHANGED <<nodes, edges, residuals, solverVars, open_shift_stream,
                   shift_list, shift_list_keys, hist_data_stream, hist_pos, csv_list,
                   call, lsi,
                   eigenvalues, total_capacity, returned>>

\* ------------------------------------------ Graph-level specification
\* no call of an editing client is on record
NoCall == [op |-> "none", source_node |-> "", sink_node |-> "", capacity |-> 0,
           add_capacity |-> FALSE]

\* no perform_search call is in progress
NoSearch == [scores |-> <<>>, employee_ids |-> <<>>, result_count |-> 0, idx |-> 0,
             max_score |-> 0, results |-> <<>>]

\* no get_k_limit call is in progress
NoIterator == [sigma |-> <<>>, klimit_min |-> 0, klimit_max |-> 0, index |-> 0,
               last_eigenvalue |-> 0, klimit |-> 0]

SolverInit ==
    /\ keyorder = <<>>
    /\ search_path = <<>>
    /\ search_path_flow = maxint
    /\ path_index = 0
    /\ augmentations = 0
    /\ error = "none"
    /\ total_capacity = 0
    /\ returned = NoReturn

\* no run of find_and_print is in progress
RunIdle ==
    /\ open_shift_stream = <<>>
    /\ shift_list = <<>>
    /\ shift_list_keys = <<>>
    /\ hist_data_stream = <<>>
    /\ hist_pos = 0
    /\ csv_list = <<>>
    /\ output = <<>>

\* a Graph after construction
Init ==
    /\ nodes = NewGraph.nodes
    /\ edges = NewGraph.edges
    /\ flows = NewGraph.flows
    /\ residuals = NewGraph.residuals
    /\ SolverInit
    /\ RunIdle
    /\ call = NoCall
    /\ lsi = NoSearch
    /\ eigenvalues = NoIterator
    /\ pc = "build"

AllIds == NodeIds \cup {ID_SOURCE, ID_SINK}

\* the call stays within the bounds of the specification
WithinBounds(key, capacity, add_capacity) ==
    /\ connect_to_weight(edges, key, capacity, add_capacity) <= MaxCap
    /\ key \in DOMAIN edges \/ Cardinality(DOMAIN edges) < MaxEdges

AddNode ==
    /\ pc = "build"
    /\ \E node_id \in AllIds : GraphBecomes(add_node(Graph, node_id))
    /\ UNCHANGED <<solverVars, runVars, pc, error, call, lsi,
                   eigenvalues, total_capacity, returned>>

AddEdge ==
    /\ pc = "build"
    /\ \E source_node \in AllIds, sink_node \in AllIds, capacity \in 1..MaxCap,
          add_capacity \in BOOLEAN :
          /\ WithinBounds(<<source_node, sink_node>>, capacity, add_capacity)
          /\ GraphBecomes(add_edge(Graph, source_node, sink_node, capacity, add_capacity))
    /\ UNCHANGED <<solverVars, runVars, pc, error, call, lsi,
                   eigenvalues, total_capacity, returned>>

AddLeadingEdge ==
    /\ pc = "build"
    /\ \E sink_node \in AllIds, capacity \in 1..MaxCap :
          /\ WithinBounds(<<ID_SOURCE, sink_node>>, capacity, TRUE)
          /\ GraphBecomes(add_leading_edge(Graph, sink_node, capacity))
    /\ UNCHANGED <<solverVars, runVars, pc, error, call, lsi,
                   eigenvalues, total_capacity, returned>>

AddTrailingEdge ==
    /\ pc = "build"
    /\ \E source_node \in AllIds, capacity \in 1..MaxCap :
          /\ WithinBounds(<<source_node, ID_SINK>>, capacity, FALSE)
          /\ GraphBecomes(add_trailing_edge(Graph, source_node, capacity))
    /\ UNCHANGED <<solverVars, runVars, pc, error, call, lsi,
                   eigenvalues, total_capacity, returned>>

\* max_flow(ID_SOURCE, ID_SINK) on the network built so far
MaxFlow == MaxFlowFrom("build")

Next ==
    \/ AddNode
    \/ AddEdge
    \/ AddLeadingEdge
    \/ AddTrailingEdge
    \/ MaxFlow
    \/ Search
    \/ AugmentEdge
    \/ AugmentRaise
    \/ AugmentDone

Spec == Init /\ [][Next]_vars

\* ------------------------------------- find_and_print specification
\* all sequences over S of length at most n
RECURSIVE SeqsUpTo(_, _)
SeqsUpTo(S, n) ==
    IF n = 0 THEN {<<>>}
    ELSE {<<>>} \cup UNION {{<<x>> \o q : q \in SeqsUpTo(S, n - 1)} : x \in S}

\* rows the open-shift CSV is drawn from: a well-formed one, one with an
\* unparsable day, one whose work type is not in the vocabulary
OpenShiftRows ==
    {[work_day |-> "1", work_shift |-> "1", work_type |-> "CNA"],
     [work_day |-> "x", work_shift |-> "2", work_type |-> "LPN"],
     [work_day |-> "1", work_shift |-> "2", work_type |-> "RN"]}

\* data lines the historical CSV is drawn from
HistRows ==
    {[work_day |-> "1", work_shift |-> "1", work_type |-> "CNA", worked |-> "True",
      employee_id |-> "W1"],
     [work_day |-> "1", work_shift |-> "1", work_type |-> "CNA", worked |-> "True",
      employee_id |-> "W2"],
     [work_day |-> "2", work_shift |-> "1", work_type |-> "LPN", worked |-> "False",
      employee_id |-> "W1"]}

\* a MaxFlowMatch after construction: schedule_graph is None
NoGraph ==
    /\ nodes = {}
    /\ edges = <<>>
    /\ flows = <<>>
    /\ residuals = <<>>

InitRun ==
    /\ NoGraph
    /\ SolverInit
    /\ pc = "start"
    /\ open_shift_stream \in SeqsUpTo(OpenShiftRows, MaxShifts)
    /\ hist_data_stream \in {<<HistHeader>> \o h : h \in SeqsUpTo(HistRows, MaxHist)}
    /\ hist_pos = 0
    /\ shift_list = <<>>
    /\ shift_list_keys = <<>>
    /\ csv_list = <<>>
    /\ output = <<>>
    /\ call = NoCall
    /\ lsi = NoSearch
    /\ eigenvalues = NoIterator

\* Graph.initialize_graph
initialize_graph(g) == IF g.nodes = {} THEN NewGraph ELSE g

\* lines 338-341: the graph is initialized, then the open shifts are read
FindAndPrint ==
    /\ pc = "start"
    /\ GraphBecomes(initialize_graph(Graph))
    /\ LET r == read_shift_csv(open_shift_stream) IN
       IF r.raised
       THEN /\ pc' = "raised"
            /\ error' = "KeyError(work_type)"
            /\ UNCHANGED shift_list
       ELSE /\ pc' = "scoring"
            /\ shift_list' = r.shift_list
            /\ UNCHANGED error
    /\ UNCHANGED <<solverVars, open_shift_stream, shift_list_keys,
                   hist_data_stream, hist_pos, csv_list, output, call, lsi,
                   eigenvalues, total_capacity, returned>>

\* lines 345-357 for the next shift: the scorer answers, the shift is added
Query ==
    /\ pc = "scoring"
    /\ Len(shift_list_keys) < Len(shift_list)
    /\ LET shift == shift_list[Len(shift_list_keys) + 1]
           shift_key == shift_key_of(shift)
           lines == StreamRest(hist_data_stream, hist_pos)
           r == read_csv(lines)
       IN /\ ~center_matrix_raises(r.schedule_list)
          /\ shift_list_keys' = Append(shift_list_keys, shift_key)
          /\ csv_list' = lines
          /\ hist_pos' = Len(hist_data_stream)
          /\ \E shift_candidates \in perform_search(Len(shift_list), r.schedule_list,
                                                     r.employee_ids) :
                GraphBecomes(add_to_graph(Graph, shift_key, shift_candidates))
    /\ UNCHANGED <<solverVars, pc, error, open_shift_stream, shift_list,
                   hist_data_stream, output, call, lsi,
                   eigenvalues, total_capacity, returned>>

\* lines 345-356 for the next shift: find_in_csv raises in center_matrix
QueryRaises ==
    /\ pc = "scoring"
    /\ Len(shift_list_keys) < Len(shift_list)
    /\ LET shift == shift_list[Len(shift_list_keys) + 1]
           lines == StreamRest(hist_data_stream, hist_pos)
           r == read_csv(lines)
       IN /\ center_matrix_raises(r.schedule_list)
          /\ shift_list_keys' = Append(shift_list_keys, shift_key_of(shift))
          /\ csv_list' = lines
          /\ hist_pos' = Len(hist_data_stream)
    /\ pc' = "raised"
    /\ error' = "IndexError"
    /\ UNCHANGED <<graphVars, solverVars, open_shift_stream, shift_list,
                   hist_data_stream, output, call, lsi,
                   eigenvalues, total_capacity, returned>>

\* line 364, once every shift has been added
RunMaxFlow ==
    /\ Len(shift_list_keys) = Len(shift_list)
    /\ MaxFlowFrom("scoring")

\* AugmentRaise is left out: on the source/shift/worker/sink networks of a
\* run every pair of a found path is an edge, so it is never enabled
NextRun ==
    \/ FindAndPrint
    \/ Query
    \/ QueryRaises
    \/ RunMaxFlow
    \/ Search
    \/ AugmentEdge
    \/ AugmentDone
    \/ Readout

SpecRun == InitRun /\ [][NextRun]_vars

\* --------------------- orchestrator with the candidate lists as inputs
\* lines 343-377 of find_and_print with the answer of each scorer query
\* given: the shift keys and candidate lists are the inputs
ShiftKeys ==
    {shift_key_of([work_day |-> 1, work_shift |-> 1, work_type |-> 0]),
     shift_key_of([work_day |-> 0, work_shift |-> 2, work_type |-> 1])}

Employees == {"W1", "W2"}

InitMatch ==
    /\ NoGraph
    /\ SolverInit
    /\ RunIdle
    /\ call = NoCall
    /\ lsi = NoSearch
    /\ eigenvalues = NoIterator
    /\ pc = "start"

InitializeGraph ==
    /\ pc = "start"
    /\ GraphBecomes(initialize_graph(Graph))
    /\ pc' = "build"
    /\ UNCHANGED <<solverVars, runVars, error, call, lsi,
                   eigenvalues, total_capacity, returned>>

\* lines 345-346 and 357 for one shift
AddToGraph ==
    /\ pc = "build"
    /\ Len(shift_list_keys) < MaxMatchShifts
    /\ \E shift_key \in ShiftKeys, shift_candidates \in SeqsUpTo(Employees, MaxCandidates) :
          /\ shift_list_keys' = Append(shift_list_keys, shift_key)
          /\ GraphBecomes(add_to_graph(Graph, shift_key, shift_candidates))
    /\ UNCHANGED <<solverVars, pc, error, open_shift_stream, shift_list,
                   hist_data_stream, hist_pos, csv_list, output, call, lsi,
                   eigenvalues, total_capacity, returned>>

\* AugmentRaise is left out, as in NextRun
NextMatch ==
    \/ InitializeGraph
    \/ AddToGraph
    \/ MaxFlow
    \/ Search
    \/ AugmentEdge
    \/ AugmentDone
    \/ Readout

SpecMatch == InitMatch /\ [][NextMatch]_vars

\* ------------------------------- a client editing one Graph object
\* the add_* methods called on a Graph before and after one max_flow call;
\* call keeps the method and the arguments of the latest call
EditPoints == {"build", "converged", "edited"}

\* ids the editing client calls add_node for
EditIds == {ID_SOURCE, ID_SINK, "a"}

\* ids the editing client names in its add_*_edge calls: those, and one it
\* never calls add_node for
EdgeIds == EditIds \cup {"b"}

\* position of the client after an add_* call has returned
AfterEdit == IF pc = "build" THEN "build" ELSE "edited"

\* the call stays within the bounds of the editing specification
EditWithinBounds(key, capacity, add_capacity) ==
    /\ connect_to_weight(edges, key, capacity, add_capacity) <= MaxEditCap
    /\ key \in DOMAIN edges \/ Cardinality(DOMAIN edges) < MaxEditEdges

EditAddNode ==
    /\ pc \in EditPoints
    /\ \E node_id \in EditIds :
          /\ GraphBecomes(add_node(Graph, node_id))
          /\ call' = [NoCall EXCEPT !.op = "add_node", !.source_node = node_id]
    /\ pc' = AfterEdit
    /\ UNCHANGED <<solverVars, runVars, error, lsi,
                   eigenvalues, total_capacity, returned>>

EditAddEdge ==
    /\ pc \in EditPoints
    /\ \E source_node \in EdgeIds, sink_node \in EdgeIds, capacity \in 1..MaxEditCap,
          add_capacity \in BOOLEAN :
          /\ EditWithinBounds(<<source_node, sink_node>>, capacity, add_capacity)
          /\ GraphBecomes(add_edge(Graph, source_node, sink_node, capacity, add_capacity))
          /\ call' = [op |-> "add_edge", source_node |-> source_node,
                      sink_node |-> sink_node, capacity |-> capacity,
                      add_capacity |-> add_capacity]
    /\ pc' = AfterEdit
    /\ UNCHANGED <<solverVars, runVars, error, lsi,
                   eigenvalues, total_capacity, returned>>

EditAddLeadingEdge ==
    /\ pc \in EditPoints
    /\ \E sink_node \in EdgeIds, capacity \in 1..MaxEditCap :
          /\ EditWithinBounds(<<ID_SOURCE, sink_node>>, capacity, TRUE)
          /\ GraphBecomes(add_leading_edge(Graph, sink_node, capacity))
          /\ call' = [NoCall EXCEPT !.op = "add_leading_edge",
                                    !.sink_node = sink_node, !.capacity = capacity]
    /\ pc' = AfterEdit
    /\ UNCHANGED <<solverVars, runVars, error, lsi,
                   eigenvalues, total_capacity, returned>>

EditAddTrailingEdge ==
    /\ pc \in EditPoints
    /\ \E source_node \in EdgeIds, capacity \in 1..MaxEditCap :
          /\ EditWithinBounds(<<source_node, ID_SINK>>, capacity, FALSE)
          /\ GraphBecomes(add_trailing_edge(Graph, source_node, capacity))
          /\ call' = [NoCall EXCEPT !.op = "add_trailing_edge",
                                    !.source_node = source_node, !.capacity = capacity]
    /\ pc' = AfterEdit
    /\ UNCHANGED <<solverVars, runVars, error, lsi,
                   eigenvalues, total_capacity, returned>>

\* AugmentRaise is left out: with one inner node every path the search
\* returns is made of edges, so it is never enabled
NextEdit ==
    \/ EditAddNode
    \/ EditAddEdge
    \/ EditAddLeadingEdge
    \/ EditAddTrailingEdge
    \/ MaxFlow
    \/ Search
    \/ AugmentEdge
    \/ AugmentDone

SpecEdit == Init /\ [][NextEdit]_vars

\* ------------------------------------------ LsiSearch.find_in_csv
\* one scorer on one historical stream, asked once or again. The cosine
\* scores are floating-point results of the singular value decomposition
\* and are not computed: each call draws them as a function of the row
\* vectors of schedule_list, in hundredths.

\* the score of a row whose weights are not numbers
NaN == -1000000

\* line 256: the margin 0.02, in hundredths
TOLERANCE == 2

\* line 238: max_score = -999999, in hundredths
MAX_SCORE_START == -99999900

\* the scores a row may get
ScoreValues == {NaN, 96, 98, 100}

\* data lines the historical CSV of the scorer is drawn from
ScoreHistRows ==
    HistRows \cup
    {[work_day |-> "2", work_shift |-> "2", work_type |-> "CNA", worked |-> "True",
      employee_id |-> "W2"]}

\* the set of rows of a matrix
RowsOf(schedule_list) == {schedule_list[k] : k \in 1..Len(schedule_list)}

\* the scorings a query may give the rows of schedule_list
Scorings(schedule_list) ==
    IF ZeroCentered(schedule_list)
    THEN [RowsOf(schedule_list) -> {NaN}]
    ELSE [RowsOf(schedule_list) -> ScoreValues]

\* lines 242-253 for every row: total_score as a function of the row
ScoresOf(schedule_list, score_of) ==
    [k \in 1..Len(schedule_list) |-> score_of[schedule_list[k]]]

\* line 256: total_score >= (max_score - 0.02); False for a NaN score
Keeps(total_score, max_score) ==
    total_score /= NaN /\ total_score >= max_score - TOLERANCE

\* lines 260-269: the SearchResult of row idx (1-based)
SearchResult(idx, total_score, employee_ids) ==
    [score |-> total_score, index |-> idx + 1, employee |-> employee_ids[idx]]

\* the results in ascending order of score
RECURSIVE sorted_ascending(_)
sorted_ascending(results) ==
    IF results = <<>> THEN <<>>
    ELSE LET first == Head(results)
             rest == sorted_ascending(Tail(results))
             before == SelectSeq(rest, LAMBDA r : r.score < first.score)
             after == SelectSeq(rest, LAMBDA r : r.score >= first.score)
         IN before \o <<first>> \o after

\* line 272: sorted(results, key=attrgetter('score'), reverse=True); the
\* sort is stable, equal scores keep their order
RECURSIVE sorted_reverse(_)
sorted_reverse(results) ==
    IF results = <<>> THEN <<>>
    ELSE LET first == Head(results)
             rest == sorted_reverse(Tail(results))
             before == SelectSeq(rest, LAMBDA r : r.score > first.score)
             after == SelectSeq(rest, LAMBDA r : r.score <= first.score)
         IN before \o <<first>> \o after

\* line 272: [:result_count] for result_count >= 0
Cut(results, result_count) == SubSeq(results, 1, Min(result_count, Len(results)))

InitScore ==
    /\ NoGraph
    /\ SolverInit
    /\ call = NoCall
    /\ lsi = NoSearch
    /\ eigenvalues = NoIterator
    /\ pc = "query"
    /\ open_shift_stream = <<>>
    /\ shift_list = <<>>
    /\ shift_list_keys = <<>>
    /\ hist_data_stream \in
           {<<HistHeader>> \o h : h \in SeqsUpTo(ScoreHistRows, MaxScoreHist)}
    /\ hist_pos = 0
    /\ csv_list = <<>>
    /\ output = <<>>

\* find_in_csv, lines 290-296, up to the walk of perform_search
FindInCsv ==
    /\ pc \in {"query", "ranked"}
    /\ LET lines == StreamRest(hist_data_stream, hist_pos)
           r == read_csv(lines)
       IN /\ ~center_matrix_raises(r.schedule_list)
          /\ csv_list' = lines
          /\ hist_pos' = Len(hist_data_stream)
          /\ \E result_count \in 0..MaxResultCount,
                score_of \in Scorings(r.schedule_list) :
                lsi' = [scores |-> ScoresOf(r.schedule_list, score_of),
                        employee_ids |-> r.employee_ids,
                        result_count |-> result_count, idx |-> 0,
                        max_score |-> MAX_SCORE_START, results |-> <<>>]
    /\ pc' = "walking"
    /\ UNCHANGED <<graphVars, solverVars, error, open_shift_stream, shift_list,
                   shift_list_keys, hist_data_stream, output, call,
                   eigenvalues, total_capacity, returned>>

\* find_in_csv raises in center_matrix
FindInCsvRaises ==
    /\ pc \in {"query", "ranked"}
    /\ LET lines == StreamRest(hist_data_stream, hist_pos)
           r == read_csv(lines)
       IN /\ center_matrix_raises(r.schedule_list)
          /\ csv_list' = lines
          /\ hist_pos' = Len(hist_data_stream)
    /\ pc' = "raised"
    /\ error' = "IndexError"
    /\ UNCHANGED <<graphVars, solverVars, open_shift_stream, shift_list,
                   shift_list_keys, hist_data_stream, output, call, lsi,
                   eigenvalues, total_capacity, returned>>

\* lines 242-270 for one row
Walk ==
    /\ pc = "walking"
    /\ lsi.idx < Len(lsi.scores)
    /\ LET idx == lsi.idx + 1
           total_score == lsi.scores[idx]
       IN lsi' = IF Keeps(total_score, lsi.max_score)
                 THEN [lsi EXCEPT !.idx = idx, !.max_score = total_score,
                                  !.results = Append(@, SearchResult(idx, total_score,
                                                                     lsi.employee_ids))]
                 ELSE [lsi EXCEPT !.idx = idx]
    /\ UNCHANGED <<graphVars, solverVars, pc, error, runVars, call,
                   eigenvalues, total_capacity, returned>>

\* lines 272-273
Rank ==
    /\ pc = "walking"
    /\ lsi.idx = Len(lsi.scores)
    /\ lsi' = [lsi EXCEPT !.results = Cut(sorted_reverse(@), lsi.result_count)]
    /\ pc' = "ranked"
    /\ UNCHANGED <<graphVars, solverVars, error, runVars, call,
                   eigenvalues, total_capacity, returned>>

NextScore ==
    \/ FindInCsv
    \/ FindInCsvRaises
    \/ Walk
    \/ Rank

SpecScore == InitScore /\ [][NextScore]_vars

\* ------------------------------------------ LsiSearch.get_k_limit
\* get_k_limit on a list of singular values as numpy.linalg.svd returns
\* them: not empty, in non-increasing order, none negative. The values are
\* kept as integers, in units of the smallest one that is not zero.

\* line 125
DROP_FACTOR == 100

\* longest list of singular values
MaxSigma == 4

\* the singular values the lists are drawn from
SigmaValues == {0, 1, 100, 200}

\* the values klimit_min is drawn from, its default 1 among them
KLimitMins == {0, 1, 2}

\* the values klimit_max is drawn from, its default 1024 among them
KLimitMaxs == {1, 2, 1024}

NonIncreasing(sigma) == \A i \in 1..(Len(sigma) - 1) : sigma[i] >= sigma[i + 1]

\* the lists of singular values of the specification
Sigmas == {sigma \in SeqsUpTo(SigmaValues, MaxSigma) : sigma /= <<>> /\ NonIncreasing(sigma)}

\* get_k_limit after lines 127-129
InitKLimit ==
    /\ NoGraph
    /\ SolverInit
    /\ RunIdle
    /\ call = NoCall
    /\ lsi = NoSearch
    /\ pc = "scanning"
    /\ \E sigma \in Sigmas, klimit_min \in KLimitMins, klimit_max \in KLimitMaxs :
          /\ klimit_min <= klimit_max
          /\ eigenvalues = [sigma |-> sigma, klimit_min |-> klimit_min,
                            klimit_max |-> klimit_max, index |-> 0,
                            last_eigenvalue |-> 0, klimit |-> klimit_max]

\* line 130: not eigenvalues.finished
Unfinished(it) == it.index < Len(it.sigma)

\* eigenvalues[0]: the value the iterator stands on (its index is 0-based)
Current(it) == it.sigma[it.index + 1]

\* lines 131-133: the three nested conditions
DropFound(it) ==
    /\ it.index > it.klimit_min
    /\ it.last_eigenvalue /= 0
    /\ Current(it) * DROP_FACTOR < it.last_eigenvalue

\* lines 130-137: an iteration that does not break
KLimitNext ==
    /\ pc = "scanning"
    /\ Unfinished(eigenvalues)
    /\ ~DropFound(eigenvalues)
    /\ eigenvalues' = [eigenvalues EXCEPT !.last_eigenvalue = Current(eigenvalues),
                                          !.index = @ + 1]
    /\ UNCHANGED <<graphVars, solverVars, pc, error, runVars, call, lsi,
                   total_capacity, returned>>

\* lines 130-135 and 139: the iteration that breaks, and the return
KLimitBreak ==
    /\ pc = "scanning"
    /\ Unfinished(eigenvalues)
    /\ DropFound(eigenvalues)
    /\ eigenvalues' = [eigenvalues EXCEPT !.klimit = eigenvalues.index - 1]
    /\ pc' = "returned"
    /\ UNCHANGED <<graphVars, solverVars, error, runVars, call, lsi,
                   total_capacity, returned>>

\* lines 130 and 139: the iterator is finished, klimit is returned
KLimitReturn ==
    /\ pc = "scanning"
    /\ ~Unfinished(eigenvalues)
    /\ pc' = "returned"
    /\ UNCHANGED <<graphVars, solverVars, error, runVars, call, lsi, eigenvalues,
                   total_capacity, returned>>

NextKLimit ==
    \/ KLimitNext
    \/ KLimitBreak
    \/ KLimitReturn

SpecKLimit == InitKLimit /\ [][NextKLimit]_vars

\* ================================================================ claims
\* total flow on the edges into node n
Inflow(n) == SumOver(flows, {key \in DOMAIN flows : key[2] = n})

\* total flow on the edges out of node n
Outflow(n) == SumOver(flows, {key \in DOMAIN flows : key[1] = n})

\* capacity of the cut that has the nodes S on the source side
CutCapacity(S) == SumOver(edges, {key \in DOMAIN edges : key[1] \in S /\ key[2] \notin S})

\* the maximum-flow value of the network: the capacity of a minimum cut
MaxFlowValue ==
    LET cuts == {S \cup {ID_SOURCE} : S \in SUBSET (nodes \ {ID_SOURCE, ID_SINK})}
    IN CHOOSE c \in {CutCapacity(S) : S \in cuts} :
           \A S \in cuts : c <= CutCapacity(S)

\* C1: every edge satisfies 0 <= flow <= capacity in every state of a
\* network that is built and then solved, the states between the edge
\* updates of one augmentation included.
C1_CapacityRespect ==
    \A key \in DOMAIN edges : 0 <= flows[key] /\ flows[key] <= edges[key]

\* C2: when max_flow has converged, the total flow leaving SOURCE equals
\* the maximum-flow value of the network.
C2_MaxFlowValue ==
    pc = "converged" => Outflow(ID_SOURCE) = MaxFlowValue

\* C3: in the Converged state, inbound flow equals outbound flow at every
\* node other than SOURCE and SINK.
C3_FlowConservation ==
    pc = "converged" =>
        \A n \in nodes \ {ID_SOURCE, ID_SINK} : Inflow(n) = Outflow(n)

\* C3 witness: a converged network that carries flow through an inner node
C3_Witness ==
    /\ pc = "converged"
    /\ \E n \in nodes \ {ID_SOURCE, ID_SINK} : Inflow(n) > 0 /\ Outflow(n) > 0

\* C4: residual = capacity - flow for every edge after every mutating
\* operation of a run: the add_* calls, each completed augmentation step
\* and the assignment readout.
C4_ResidualInvariant ==
    pc /= "augmenting" =>
        \A key \in DOMAIN edges : residuals[key] = edges[key] - flows[key]

\* total capacity of the edges leaving SOURCE
SourceCapacity == SumOver(edges, {key \in DOMAIN edges : key[1] = ID_SOURCE})

\* C5: on a network whose capacities are all positive, max_flow ends in
\* Converged (it does not end by raising), after at most (total capacity of
\* the edges leaving SOURCE) augmenting steps, each with a bottleneck > 0.
C5_Termination ==
    (\A key \in DOMAIN edges : edges[key] > 0) =>
        /\ pc /= "raised"
        /\ augmentations <= SourceCapacity
        /\ pc = "augmenting" => search_path_flow > 0

\* C6: the readout leaves every flow unchanged, and a second readout of the
\* network it leaves behind reports what the first one reported.
C6_ReadoutIdempotent ==
    [][(pc = "converged" /\ pc' = "done") =>
          /\ flows' = flows
          /\ readout(shift_list_keys, flows', keyorder).output = output']_vars

\* the readout has ended, by returning or by raising
ReadoutEnded == pc = "done" \/ error \in {"UnboundLocalError", "KeyError(flow)"}

\* the shift node has no outgoing edge
NoCandidates(shift) == shift \in nodes /\ Keys(edges, shift) = {}

\* C7: a shift without candidates is reported as unfilled and the readout
\* does not raise.
C7_EmptyShiftUnfilled ==
    \A k \in 1..Len(shift_list_keys) :
        (ReadoutEnded /\ NoCandidates(shift_list_keys[k])) =>
            /\ pc = "done"
            /\ \E l \in 1..Len(output) :
                  /\ output[l].shift = shift_list_keys[k]
                  /\ output[l].employee = UNFILLED

\* C8: every scorer query of a run reads the complete historical table.
C8_QueriesIndependent ==
    Len(shift_list_keys) >= 1 => csv_list = hist_data_stream

\* some row of the open-shift CSV has a work type outside the vocabulary
BadWorkType == \E j \in 1..Len(open_shift_stream) : work_type_raises(open_shift_stream[j])

\* C9: a run whose open-shift CSV has a row with an unknown work type fails
\* while the network still holds only SOURCE and SINK and no edge.
C9_UnknownWorkTypeFailsFirst ==
    (BadWorkType /\ pc /= "start") =>
        /\ pc = "raised"
        /\ error = "KeyError(work_type)"
        /\ nodes = {ID_SOURCE, ID_SINK}
        /\ DOMAIN edges = {}

\* C9 witness: the run has failed on a bad second row after a good first one
C9_Witness ==
    /\ pc = "raised"
    /\ Len(open_shift_stream) = 2
    /\ ~work_type_raises(open_shift_stream[1])
    /\ work_type_raises(open_shift_stream[2])

\* Scenario B of the specification, as add_to_graph builds it
S1 == shift_key_of([work_day |-> 1, work_shift |-> 1, work_type |-> 0])
S2 == shift_key_of([work_day |-> 0, work_shift |-> 2, work_type |-> 1])
ScenarioB ==
    (<<ID_SOURCE, S1>> :> HOURS_SHIFT) @@ (<<S1, "W1">> :> HOURS_SHIFT) @@
    (<<ID_SOURCE, S2>> :> HOURS_SHIFT) @@ (<<S2, "W1">> :> HOURS_SHIFT) @@
    (<<"W1", ID_SINK>> :> HOURS_WEEK)

\* C10: on the network of Scenario B max_flow converges with flow 8 on
\* S1->W1, 8 on S2->W1 and 16 on W1->SINK, for every iteration order.
C10_ScenarioB ==
    (pc = "converged" /\ edges = ScenarioB) =>
        /\ flows[<<S1, "W1">>] = 8
        /\ flows[<<S2, "W1">>] = 8
        /\ flows[<<"W1", ID_SINK>>] = 16

\* C10 witness: max_flow has converged on the network of Scenario B
C10_Witness == pc = "converged" /\ edges = ScenarioB

\* the shift node has an outgoing edge that carries positive flow in f
HasPositiveFlow(f, shift) == \E w \in Keys(f, shift) : f[<<shift, w>>] > 0

\* C11: the readout of a converged network emits exactly one result per
\* entry of the open-shift list, in input order; a result (shift, w, h) only
\* if shift->w carried flow h > 0 in the converged network, and an unfilled
\* result exactly when no outgoing edge of the shift carried positive flow.
C11_ReadoutExact ==
    [][(pc = "converged" /\ pc' /= "converged") =>
          /\ Len(output') = Len(shift_list_keys)
          /\ \A k \in 1..Len(shift_list_keys) :
                /\ output'[k].shift = shift_list_keys[k]
                /\ output'[k].employee /= UNFILLED =>
                      /\ <<shift_list_keys[k], output'[k].employee>> \in DOMAIN flows
                      /\ flows[<<shift_list_keys[k], output'[k].employee>>] = output'[k].hours
                      /\ output'[k].hours > 0
                /\ output'[k].employee = UNFILLED <=>
                      ~HasPositiveFlow(flows, shift_list_keys[k])]_vars

\* the open-shift keys of the run are pairwise distinct
DistinctKeys ==
    \A i, j \in 1..Len(shift_list_keys) :
        shift_list_keys[i] = shift_list_keys[j] => i = j

\* the workers the shift node sends positive flow to
Assigned(shift) == {w \in Keys(flows, shift) : flows[<<shift, w>>] > 0}

\* C12: when the open-shift keys of a run are pairwise distinct, in the
\* Converged state every shift node has at most one outgoing edge with
\* flow > 0, and that flow is the per-shift capacity 8.
C12_ShiftWhole ==
    (pc = "converged" /\ DistinctKeys) =>
        \A k \in 1..Len(shift_list_keys) :
            /\ Cardinality(Assigned(shift_list_keys[k])) <= 1
            /\ \A w \in Assigned(shift_list_keys[k]) :
                  flows[<<shift_list_keys[k], w>>] = 8

\* C12 witness: two distinct shifts that share two candidates have
\* converged, each filled by one worker
C12_Witness ==
    /\ pc = "converged"
    /\ DistinctKeys
    /\ Len(shift_list_keys) = 2
    /\ \A k \in 1..2 :
          /\ Keys(flows, shift_list_keys[k]) = Employees
          /\ Cardinality(Assigned(shift_list_keys[k])) = 1

\* the step is the return of an add_* call of the editing client
EditReturns == pc \in EditPoints /\ pc' \in {"build", "edited"}

\* C13: add_edge(from, to, capacity) where from or to is not a node is
\* skipped: no node and no edge is created, every capacity, flow and
\* residual is kept, and the run is not aborted.
C13_MissingNodeSkipped ==
    [][(/\ EditReturns
        /\ call'.op = "add_edge"
        /\ call'.source_node \notin nodes \/ call'.sink_node \notin nodes) =>
          /\ nodes' = nodes
          /\ edges' = edges
          /\ flows' = flows
          /\ residuals' = residuals
          /\ error' = "none"
          /\ pc' = AfterEdit]_vars

\* C13 witness: max_flow has pushed flow after the latest add_edge call
\* named a missing node
C13_Witness ==
    /\ pc = "converged"
    /\ call.op = "add_edge"
    /\ call.source_node \notin nodes \/ call.sink_node \notin nodes
    /\ \E key \in DOMAIN flows : flows[key] > 0

\* C14: after add_edge (accumulate false or true) an edge that existed
\* carries the flow it carried before and its residual is its new capacity
\* minus that flow; the flow is 0 for an edge that did not exist.
C14_AddEdgeKeepsFlow ==
    [][(EditReturns /\ call'.op = "add_edge") =>
          \A key \in DOMAIN edges' :
              IF key \in DOMAIN edges
              THEN /\ flows'[key] = flows[key]
                   /\ residuals'[key] = edges'[key] - flows[key]
              ELSE flows'[key] = 0]_vars

\* capacity of the edge key in e, 0 while it does not exist
Capacity(e, key) == IF key \in DOMAIN e THEN e[key] ELSE 0

\* the edge an add_* call addresses, <<>> for add_node
Addressed(c) ==
    CASE c.op = "add_edge" -> <<c.source_node, c.sink_node>>
      [] c.op = "add_leading_edge" -> <<ID_SOURCE, c.sink_node>>
      [] c.op = "add_trailing_edge" -> <<c.source_node, ID_SINK>>
      [] OTHER -> <<>>

\* the returning call is add_leading_edge(s, c) for the existing node s
LeadsTo(s) == call'.op = "add_leading_edge" /\ call'.sink_node = s /\ s \in nodes

\* the call that returned before this step was add_leading_edge(s, c) and
\* it made or raised the edge SOURCE->s
Led(s) ==
    /\ call.op = "add_leading_edge"
    /\ call.sink_node = s
    /\ <<ID_SOURCE, s>> \in DOMAIN edges

\* C15 as stated: add_leading_edge(s, c) on an existing shift node s adds c
\* to the capacity of SOURCE->s, and any other add_* call that follows an
\* add_leading_edge(s, c) leaves that capacity as it is, so that the
\* capacity is c_1 + ... + c_n whatever add_* calls are interleaved.
C15_LeadingSumAnyCalls ==
    [][EditReturns =>
          \A s \in nodes \ {ID_SOURCE, ID_SINK} :
              IF LeadsTo(s)
              THEN Capacity(edges', <<ID_SOURCE, s>>) =
                       Capacity(edges, <<ID_SOURCE, s>>) + call'.capacity
              ELSE Led(s) => edges'[<<ID_SOURCE, s>>] = edges[<<ID_SOURCE, s>>]]_vars

\* C15 amended: add_leading_edge(s, c) on an existing node s adds c to the
\* capacity of SOURCE->s, and every add_* call that does not address the
\* edge SOURCE->s leaves that capacity as it is.
C15_LeadingSum ==
    [][EditReturns =>
          \A s \in nodes :
              /\ LeadsTo(s) =>
                    Capacity(edges', <<ID_SOURCE, s>>) =
                        Capacity(edges, <<ID_SOURCE, s>>) + call'.capacity
              /\ Addressed(call') /= <<ID_SOURCE, s>> =>
                    Capacity(edges', <<ID_SOURCE, s>>) =
                        Capacity(edges, <<ID_SOURCE, s>>)]_vars

\* C15 witness: add_leading_edge has returned for a node whose leading edge
\* holds more than the capacity of that call
C15_Witness ==
    /\ call.op = "add_leading_edge"
    /\ call.sink_node \in nodes \ {ID_SOURCE, ID_SINK}
    /\ Capacity(edges, <<ID_SOURCE, call.sink_node>>) > call.capacity

\* number of entries of keys_list equal to key
RECURSIVE Occurrences(_, _)
Occurrences(keys_list, key) ==
    IF keys_list = <<>> THEN 0
    ELSE (IF Head(keys_list) = key THEN 1 ELSE 0) + Occurrences(Tail(keys_list), key)

\* C15, in a run: an open-shift key that occurs m times has intake
\* capacity 8 * m; an invariant of SpecMatch
C15_RunIntake ==
    \A k \in 1..Len(shift_list_keys) :
        edges[<<ID_SOURCE, shift_list_keys[k]>>] =
            8 * Occurrences(shift_list_keys, shift_list_keys[k])

\* C16: add_trailing_edge sets and never accumulates: while
\* add_trailing_edge(w, c) for an existing node w is the latest call, the
\* capacity of w->SINK is c, whatever the edge held before.
C16_TrailingSets ==
    (call.op = "add_trailing_edge" /\ call.source_node \in nodes) =>
        /\ <<call.source_node, ID_SINK>> \in DOMAIN edges
        /\ edges[<<call.source_node, ID_SINK>>] = call.capacity

\* C16 witness: add_trailing_edge has returned for a node whose trailing
\* edge existed, since the solve before it pushed flow through that node
C16_Witness ==
    /\ pc = "edited"
    /\ call.op = "add_trailing_edge"
    /\ call.source_node \in nodes \ {ID_SOURCE, ID_SINK}
    /\ <<ID_SOURCE, call.source_node>> \in DOMAIN flows
    /\ flows[<<ID_SOURCE, call.source_node>>] > 0

\* C16, in a run: every worker->SINK edge has capacity 40 and every
\* shift->worker edge capacity 8; an invariant of SpecMatch
C16_RunCapacities ==
    \A key \in DOMAIN edges :
        /\ key[2] = ID_SINK => edges[key] = 40
        /\ (key[1] /= ID_SOURCE /\ key[2] /= ID_SINK) => edges[key] = 8

\* C17: add_node(id) for an id that is a node already (SOURCE and SINK
\* included) leaves the whole network unchanged, the node's outgoing edges
\* with their capacities, flows and residuals included; and no operation
\* removes a node.
C17_AddNodeIdempotent ==
    [][/\ (EditReturns /\ call'.op = "add_node" /\ call'.source_node \in nodes) =>
              /\ nodes' = nodes
              /\ edges' = edges
              /\ flows' = flows
              /\ residuals' = residuals
       /\ nodes \subseteq nodes']_vars

\* C17 witness: add_node has returned for a node that has an outgoing edge
\* with flow on it
C17_Witness ==
    /\ pc = "edited"
    /\ call.op = "add_node"
    /\ \E key \in DOMAIN flows : key[1] = call.source_node /\ flows[key] > 0

\* C18: the list the scorer returns has at most result_count elements and
\* is ordered by non-increasing score, for every history, every scoring of
\* its rows and every result_count >= 0.
C18_RankedAndCut ==
    pc = "ranked" =>
        /\ Len(lsi.results) <= lsi.result_count
        /\ \A k \in 1..(Len(lsi.results) - 1) :
              lsi.results[k].score >= lsi.results[k + 1].score

\* C18 witness: three rows were walked and the two results returned stand
\* in the reverse of their order in the history
C18_Witness ==
    /\ pc = "ranked"
    /\ Len(lsi.scores) = 3
    /\ Len(lsi.results) = 2
    /\ lsi.results[1].score > lsi.results[2].score
    /\ lsi.results[1].index > lsi.results[2].index

\* the maximum score over the rows 1..i, NaN scores left aside
RunningMax(scores, i) ==
    LET seen == {scores[k] : k \in 1..i} \ {NaN}
    IN IF seen = {} THEN MAX_SCORE_START
       ELSE CHOOSE m \in seen : \A x \in seen : x <= m

\* row i of the history is among the results of the walk
Kept(i) == \E k \in 1..Len(lsi.results) : lsi.results[k].index = i + 1

\* C19: in the walk over the historical rows in original order a row is
\* kept if and only if its score is >= (the maximum score over all rows
\* walked so far) - 0.02.
C19_KeptNearRunningMax ==
    pc = "walking" =>
        \A i \in 1..lsi.idx :
            Kept(i) <=> (/\ lsi.scores[i] /= NaN
                         /\ lsi.scores[i] >= RunningMax(lsi.scores, i) - TOLERANCE)

\* the day, shift, work type and worked flag of a data line, as read_csv reads them
FieldsOf(line) ==
    <<IntCells[line.work_day], IntCells[line.work_shift], WORK_MAP[line.work_type],
      BOOL_MAP[line.worked]>>

\* the number of data lines of the history equal to the line: the
\* repetition weight of the record
Repetitions(lines, line) == Cardinality({j \in 2..Len(lines) : lines[j] = line})

\* two records identical in every field but the worker id
SameButWorker(lines, i, j) ==
    /\ FieldsOf(lines[i]) = FieldsOf(lines[j])
    /\ lines[i].employee_id /= lines[j].employee_id
    /\ Repetitions(lines, lines[i]) = Repetitions(lines, lines[j])

\* the rows of the matrix read_csv made for the record
RowsFor(lines, line) ==
    LET r == read_csv(lines)
    IN {k \in 1..Len(r.schedule_list) :
           /\ r.employee_ids[k] = line.employee_id
           /\ SubSeq(r.schedule_list[k], 1, 4) = FieldsOf(line)}

IsDrop(sigma, i) == sigma[i + 1] * DROP_FACTOR < sigma[i]

\* the 0-based positions of the drops of sigma
Drops(sigma) == {i \in 1..(Len(sigma) - 1) : IsDrop(sigma, i)}

Clamp(k, lo, hi) == IF k < lo THEN lo ELSE IF k > hi THEN hi ELSE k

\* the number of values before the first drop, clamped; klimit_max without a drop
Retained(sigma, klimit_min, klimit_max) ==
    IF Drops(sigma) = {} THEN klimit_max
    ELSE Clamp(CHOOSE i \in Drops(sigma) : \A j \in Drops(sigma) : i <= j,
               klimit_min, klimit_max)

\* C21: for a non-increasing sigma, get_k_limit returns the number of values
\* that precede the first value with sigma[i] * 100 < sigma[i-1], clamped to
\* [k_min, k_max], and k_max when there is no such drop; the result lies in
\* [k_min, k_max].
C21_KLimitBeforeFirstDrop ==
    pc = "returned" =>
        /\ eigenvalues.klimit =
               Retained(eigenvalues.sigma, eigenvalues.klimit_min, eigenvalues.klimit_max)
        /\ eigenvalues.klimit_min <= eigenvalues.klimit
        /\ eigenvalues.klimit <= eigenvalues.klimit_max

\* the query has ended, by returning a list or by raising
QueryEnded == pc \in {"ranked", "raised"}

\* the history the latest query read has no row, or one distinct row
FewRows == Cardinality(RowsOf(read_csv(csv_list).schedule_list)) <= 1

\* C22: a scorer query on a history with zero rows or with exactly one
\* distinct row fails with an error; it never returns a result list, empty
\* or not.
C22_FewRowsFail ==
    (QueryEnded /\ FewRows) => (pc = "raised" /\ error /= "none")

\* the consecutive pairs of the path p
PairsOf(p) == {<<p[k], p[k + 1]>> : k \in 1..(Len(p) - 1)}

\* p leads from source to target over edges that have residual > 0 in res
ResidualPath(res, p, source, target) ==
    /\ p[1] = source
    /\ Last(p) = target
    /\ \A key \in PairsOf(p) : key \in DOMAIN res /\ res[key] > 0

\* C23: a non-empty path returned by depth_first_search(source, target) is
\* a genuine residual path: it starts at source, ends at target, every
\* consecutive pair is an existing edge, and every such edge, the last edge
\* into target included, has residual > 0 at the time of the search.
C23_GenuineResidualPath ==
    [][(pc = "searching" /\ search_path' /= <<>>) =>
          ResidualPath(residuals, search_path', ID_SOURCE, ID_SINK)]_vars

\* the residuals of the edges of the path p
PathResiduals(res, p) == {res[key] : key \in PairsOf(p) \cap DOMAIN res}

\* C24: the bottleneck returned with a non-empty path is the minimum
\* residual over exactly the edges of that path; when no path is found the
\* bottleneck is 0 and the path is empty.
C24_BottleneckOfPath ==
    [][pc = "searching" =>
          IF search_path' = <<>>
          THEN search_path_flow' = 0
          ELSE /\ search_path_flow' \in PathResiduals(residuals, search_path')
               /\ \A x \in PathResiduals(residuals, search_path') :
                     search_path_flow' <= x]_vars

\* the pair of the found path the augmenting step stands on
PathPair == <<search_path[path_index], search_path[path_index + 1]>>

\* the step raises the flow of the edge the augmenting step stands on
RaisesPathPair == pc' = "augmenting" /\ path_index' = path_index + 1

\* the edges of the found path the augmenting step has not reached
Pending ==
    {k \in path_index..(Len(search_path) - 1) :
        <<search_path[k], search_path[k + 1]>> \in DOMAIN edges}

\* C25, edge by edge: a step of the augmenting loop raises the flow of the
\* path edge it stands on by the bottleneck and sets that edge's residual to
\* capacity - flow; it leaves the nodes, every capacity and the flow and
\* residual of every other edge as they are. No node occurs twice in a found
\* path, so no edge is raised twice.
C25_EdgeByEdge ==
    [][pc = "augmenting" =>
          /\ nodes' = nodes
          /\ edges' = edges
          /\ \A i, j \in 1..Len(search_path) : search_path[i] = search_path[j] => i = j
          /\ \A key \in DOMAIN edges :
                IF RaisesPathPair /\ key = PathPair
                THEN /\ flows'[key] = flows[key] + search_path_flow
                     /\ residuals'[key] = edges[key] - flows'[key]
                ELSE /\ flows'[key] = flows[key]
                     /\ residuals'[key] = residuals[key]]_vars

\* C25: each Augmenting step raises the flow of every edge on the found
\* path by exactly the bottleneck and sets that edge's residual to
\* capacity - flow, and leaves the nodes, every capacity and the flow and
\* residual of every edge off the path unchanged: the loop treats its edges
\* as C25_EdgeByEdge says, and when the step ends no edge of the found path
\* is left out.
C25_AugmentingStep ==
    [][pc = "augmenting" =>
          /\ nodes' = nodes
          /\ edges' = edges
          /\ \A key \in DOMAIN edges :
                IF RaisesPathPair /\ key = PathPair
                THEN /\ flows'[key] = flows[key] + search_path_flow
                     /\ residuals'[key] = edges[key] - flows'[key]
                ELSE /\ flows'[key] = flows[key]
                     /\ residuals'[key] = residuals[key]
          /\ pc' /= "augmenting" => Pending = {}]_vars

\* C26: whenever max_flow returns, its return value is the pair (0, None)
\* whatever flow was pushed; the flow is on the edges only.
C26_ReturnsZeroNone ==
    /\ pc = "converged" <=> returned /= NoReturn
    /\ returned /= NoReturn => returned = <<0, "None">>

\* C26 witness: max_flow has returned after two augmentations that left flow
\* on the edges out of SOURCE
C26_Witness ==
    /\ pc = "converged"
    /\ returned /= NoReturn
    /\ augmentations >= 2
    /\ Outflow(ID_SOURCE) >= 2

====
